---- MODULE Spec2Model ----
(***************************************************************************)
(* Philips air purifier sensor platform (sensor.py): platform setup, the   *)
(* simple sensor entity and the filter sensor entity, reading a device     *)
(* status mapping that the coordinator refreshes out of band.              *)
(***************************************************************************)
EXTENDS Integers, Sequences, FiniteSets, TLC

\* ------------------------------------------------------------------ bounds
\* Largest filter value (hours / wear count) the device reports.
MaxValue == 2
\* Largest filter total the device reports.
MaxTotal == 3

\* ------------------------------------------------------------------ values
\* Python values held in the status mapping and returned by reads.  A value
\* is a record of one shape: t is the Python type, n the number, s the text.
\* A float is kept as its number of hundredths in n (round(x, 2) has at most
\* two decimals).
NoneV == [t |-> "NoneType", n |-> 0, s |-> ""]
IntV(i) == [t |-> "int", n |-> i, s |-> ""]
StrV(x) == [t |-> "str", n |-> 0, s |-> x]
FloatV(h) == [t |-> "float", n |-> h, s |-> ""]

\* Python truthiness of a value: None, 0, 0.0 and "" are false.
Truthy(v) ==
    CASE v.t = "NoneType" -> FALSE
      [] v.t = "int" -> v.n # 0
      [] v.t = "float" -> v.n # 0
      [] OTHER -> v.s # ""

\* str(v), as an f-string formats a value.
Format(v) ==
    CASE v.t = "NoneType" -> "None"
      [] v.t = "int" -> ToString(v.n)
      [] OTHER -> v.s

\* A dict with no key.
EmptyDict == [k \in {} |-> NoneV]

\* key in dict
Has(d, k) == k \in DOMAIN d

\* dict.get(key): the value, None when the key is absent.
Get(d, k) == IF Has(d, k) THEN d[k] ELSE NoneV

\* dict[key] = value
Put(d, k, v) == [x \in DOMAIN d \cup {k} |-> IF x = k THEN v ELSE d[x]]

\* del dict[key]
Del(d, k) == [x \in DOMAIN d \ {k} |-> d[x]]

\* ------------------------------------------------------------------ const.py
PHILIPS_DEVICE_ID == "DeviceId"
PHILIPS_FILTER_STATUS == "FilterStatus"
PHILIPS_FILTER_TOTAL == "FilterTotal"
PHILIPS_FILTER_TYPE == "FilterType"
PERCENTAGE == "%"
ATTR_TYPE == "type"
ATTR_RAW == "raw"
ATTR_TOTAL == "total"
ATTR_TIME_REMAINING == "time_remaining"

\* The water-level conversion reads this key of the full snapshot.
PHILIPS_ERROR_CODE == "err"
WaterErrorCodes == {32768, 49408}

\* The declared sensors, in declaration order.  "value" names the optional
\* conversion function of the definition ("none": the definition has none).
SensorOrder == <<"pm25", "wl">>
SENSOR_TYPES ==
    [kind \in {"pm25", "wl"} |->
        IF kind = "pm25"
        THEN [label |-> "pm25", unit |-> "ug/m3", value |-> "none"]
        ELSE [label |-> "water_level", unit |-> PERCENTAGE, value |-> "water_level"]]

\* The declared filter types, in declaration order.
FilterOrder == <<"pre_filter">>
FILTER_TYPES ==
    [kind \in {"pre_filter"} |-> [prefix |-> "flt", postfix |-> "0"]]

\* A conversion function (raw_value, full_status_snapshot) -> display_value.
\* water_level: 0 while the device reports a water error, else the raw value.
Convert(name, value, snapshot) ==
    IF name = "water_level"
    THEN IF /\ Has(snapshot, PHILIPS_ERROR_CODE)
            /\ snapshot[PHILIPS_ERROR_CODE].t = "int"
            /\ snapshot[PHILIPS_ERROR_CODE].n \in WaterErrorCodes
         THEN IntV(0)
         ELSE value
    ELSE value

\* str.lower() on the declared identifiers.
Lower(x) ==
    CASE x = "PM25" -> "pm25"
      [] x = "WL" -> "wl"
      [] OTHER -> x

\* ------------------------------------------------------------------ state
VARIABLES
    status,         \* coordinator.status: the device status mapping
    setup,          \* how the platform's setup stands
    entities,       \* the entity objects the last setup call constructed
    registered,     \* the calls made to async_add_entities
    lastCall        \* the call that has just returned, if any

vars == <<status, setup, entities, registered, lastCall>>

\* What a call hands back: the exception it raised ("none": it returned),
\* the value it returned, the dict it returned.
NoCall == [op |-> "none", idx |-> 0, exc |-> "none", val |-> NoneV, attrs |-> EmptyDict]
Returns(v) == [exc |-> "none", val |-> v]
Raises(e) == [exc |-> e, val |-> NoneV]

\* ------------------------------------------------------------------ entities
\* PhilipsEntity._device_status: the coordinator's live status mapping.
device_status(snapshot) == snapshot

\* The three derived keys of a filter type.
value_key(kind) ==
    FILTER_TYPES[kind].prefix \o PHILIPS_FILTER_STATUS \o FILTER_TYPES[kind].postfix
total_key(kind) ==
    FILTER_TYPES[kind].prefix \o PHILIPS_FILTER_TOTAL \o FILTER_TYPES[kind].postfix
type_key(kind) ==
    FILTER_TYPES[kind].prefix \o PHILIPS_FILTER_TYPE \o FILTER_TYPES[kind].postfix

\* The unique id, or the exception of the try block.
SensorUniqueId(snapshot, model, kind) ==
    IF Has(device_status(snapshot), PHILIPS_DEVICE_ID)
    THEN Returns(StrV(model \o "-" \o Format(device_status(snapshot)[PHILIPS_DEVICE_ID])
                        \o "-" \o Lower(kind)))
    ELSE Raises("KeyError")

FilterUniqueId(snapshot, model, kind) ==
    IF Has(device_status(snapshot), PHILIPS_DEVICE_ID)
    THEN Returns(StrV(model \o "-" \o Format(device_status(snapshot)[PHILIPS_DEVICE_ID])
                        \o "-" \o kind))
    ELSE Raises("KeyError")

\* Mutant of ExceptToNotReady: the lookup's own exception escapes.
ExceptPropagates(r) == r.exc

\* except Exception: log, raise PlatformNotReady.
ExceptToNotReady(r) == IF r.exc = "none" THEN "none" ELSE "PlatformNotReady"

\* PhilipsSensor.__init__: the exception raised and the object built.  The
\* display name, icon, device class and state class are set once from the
\* definition and read by no operation here.
PhilipsSensor_init(snapshot, name, model, kind) ==
    LET uid == SensorUniqueId(snapshot, model, kind) IN
    [exc |-> ExceptToNotReady(uid),
     entity |-> [cls |-> "PhilipsSensor",
                 kind |-> kind,
                 unit |-> SENSOR_TYPES[kind].unit,
                 unique_id |-> uid.val.s,
                 value_key |-> "", total_key |-> "", type_key |-> "",
                 attrs |-> EmptyDict]]

\* PhilipsFilterSensor._has_total
has_total(self, snapshot) == Has(device_status(snapshot), self.total_key)

\* PhilipsFilterSensor.__init__: the exception raised and the object built.
PhilipsFilterSensor_init(snapshot, name, model, kind) ==
    LET uid == FilterUniqueId(snapshot, model, kind)
        keys == [value_key |-> value_key(kind), total_key |-> total_key(kind)]
    IN
    [exc |-> ExceptToNotReady(uid),
     entity |-> [cls |-> "PhilipsFilterSensor",
                 kind |-> kind,
                 unit |-> IF has_total(keys, snapshot) THEN PERCENTAGE ELSE "",
                 unique_id |-> uid.val.s,
                 value_key |-> value_key(kind),
                 total_key |-> total_key(kind),
                 type_key |-> type_key(kind),
                 attrs |-> EmptyDict]]

\* Mutant of is_supported: eligibility decided by the total key.
is_supported_by_total(snapshot, kind) ==
    Has(snapshot, FILTER_TYPES[kind].prefix \o PHILIPS_FILTER_TOTAL
                    \o FILTER_TYPES[kind].postfix)

\* PhilipsFilterSensor.is_supported
is_supported(snapshot, kind) ==
    Has(snapshot, FILTER_TYPES[kind].prefix \o PHILIPS_FILTER_STATUS
                    \o FILTER_TYPES[kind].postfix)

\* if coordinator.status.get(sensor):
SensorWanted(snapshot, kind) == Truthy(Get(snapshot, kind))

\* ------------------------------------------------------------------ reads
\* Mutant of PhilipsSensor_state: the conversion function is never called.
PhilipsSensor_state_raw(self, snapshot) ==
    IF ~Has(device_status(snapshot), self.kind)
    THEN Raises("KeyError")
    ELSE Returns(device_status(snapshot)[self.kind])

\* PhilipsSensor.state
PhilipsSensor_state(self, snapshot) ==
    IF ~Has(device_status(snapshot), self.kind)
    THEN Raises("KeyError")
    ELSE LET value == device_status(snapshot)[self.kind]
             convert == SENSOR_TYPES[self.kind].value
         IN IF convert # "none"
            THEN Returns(Convert(convert, value, device_status(snapshot)))
            ELSE Returns(value)

\* Mutant of filter_value: the value is remembered from the last
\* attribute read.
filter_value_cached(self, snapshot) ==
    IF Has(self.attrs, ATTR_RAW)
    THEN Returns(self.attrs[ATTR_RAW])
    ELSE IF Has(device_status(snapshot), self.value_key)
    THEN Returns(device_status(snapshot)[self.value_key])
    ELSE Raises("KeyError")

\* Mutant of filter_value: a missing key reads as a default.
filter_value_default(self, snapshot) ==
    Returns(IF Has(device_status(snapshot), self.value_key)
            THEN device_status(snapshot)[self.value_key]
            ELSE IntV(0))

\* PhilipsFilterSensor._value
filter_value(self, snapshot) ==
    IF Has(device_status(snapshot), self.value_key)
    THEN Returns(device_status(snapshot)[self.value_key])
    ELSE Raises("KeyError")

\* PhilipsFilterSensor._total
filter_total(self, snapshot) ==
    IF Has(device_status(snapshot), self.total_key)
    THEN Returns(device_status(snapshot)[self.total_key])
    ELSE Raises("KeyError")

\* round(num / den) to the nearest integer, ties to the even one, den > 0.
\* round(100.0 * v / t, 2) in hundredths is RoundHalfEven(10000 * v, t); a tie
\* needs a total that is a multiple of 32.
RoundHalfEven(num, den) ==
    LET q == num \div den
        r == num % den
    IN IF 2 * r < den THEN q
       ELSE IF 2 * r > den THEN q + 1
       ELSE IF q % 2 = 0 THEN q ELSE q + 1

\* PhilipsFilterSensor._percentage: self._value is read first, then
\* self._total, then the float division.
percentage(self, snapshot) ==
    LET v == filter_value(self, snapshot)
        t == filter_total(self, snapshot)
    IN IF v.exc # "none" THEN v
       ELSE IF t.exc # "none" THEN t
       ELSE IF t.val.n = 0 THEN Raises("ZeroDivisionError")
       ELSE Returns(FloatV(RoundHalfEven(10000 * v.val.n, t.val.n)))

\* str(timedelta(hours=h)) for a whole number of hours h >= 0.
TimedeltaStr(h) ==
    LET days == h \div 24
        clock == ToString(h % 24) \o ":00:00"
    IN IF days = 0 THEN clock
       ELSE ToString(days) \o " day" \o (IF days = 1 THEN "" ELSE "s") \o ", " \o clock

\* PhilipsFilterSensor._time_remaining
time_remaining(self, snapshot) ==
    LET v == filter_value(self, snapshot)
    IN IF v.exc # "none" THEN v ELSE Returns(StrV(TimedeltaStr(v.val.n)))

\* PhilipsFilterSensor.state
PhilipsFilterSensor_state(self, snapshot) ==
    IF has_total(self, snapshot)
    THEN percentage(self, snapshot)
    ELSE time_remaining(self, snapshot)

\* PhilipsFilterSensor.extra_state_attributes: the exception raised, the dict
\* returned and self._attrs as the call leaves it (the dict is updated in
\* place, entry by entry, up to the statement that raises).
PhilipsFilterSensor_extra_state_attributes(self, snapshot) ==
    LET a1 == IF Has(device_status(snapshot), self.type_key)
              THEN Put(self.attrs, ATTR_TYPE, device_status(snapshot)[self.type_key])
              ELSE self.attrs
        v == filter_value(self, snapshot)
        a2 == Put(a1, ATTR_RAW, v.val)
        t == filter_total(self, snapshot)
        a3 == Put(a2, ATTR_TOTAL, t.val)
        tr == time_remaining(self, snapshot)
        a4 == Put(a3, ATTR_TIME_REMAINING, tr.val)
    IN IF v.exc # "none" THEN [exc |-> v.exc, ret |-> EmptyDict, attrs |-> a1]
       ELSE IF ~has_total(self, snapshot) THEN [exc |-> "none", ret |-> a2, attrs |-> a2]
       ELSE IF t.exc # "none" THEN [exc |-> t.exc, ret |-> EmptyDict, attrs |-> a2]
       ELSE IF tr.exc # "none" THEN [exc |-> tr.exc, ret |-> EmptyDict, attrs |-> a3]
       ELSE [exc |-> "none", ret |-> a4, attrs |-> a4]

\* ------------------------------------------------------------------ inputs
\* The keys the device reports and the values it reports under each.
StatusKeys ==
    {PHILIPS_DEVICE_ID, PHILIPS_ERROR_CODE, "pm25", "wl",
     value_key("pre_filter"), total_key("pre_filter"), type_key("pre_filter")}

KeyValues(k) ==
    CASE k = PHILIPS_DEVICE_ID -> {StrV("XYZ")}
      [] k = PHILIPS_ERROR_CODE -> {IntV(49408)}
      [] k \in {"pm25", "wl"} -> {NoneV, StrV(""), IntV(0), IntV(1)}
      [] k = value_key("pre_filter") -> {IntV(i) : i \in 0..MaxValue}
      [] k = total_key("pre_filter") -> {IntV(i) : i \in 0..MaxTotal}
      [] OTHER -> {StrV("A3")}

\* Every status mapping over a set of keys.
RECURSIVE Snapshots(_)
Snapshots(ks) ==
    IF ks = {} THEN {EmptyDict}
    ELSE LET k == CHOOSE x \in ks : TRUE
             rest == Snapshots(ks \ {k})
         IN rest \cup {Put(d, k, v) : d \in rest, v \in KeyValues(k)}

\* discovery_info: None, or the host, model and name of the device.
Discovery == [host |-> "192.0.2.7", model |-> "AC1234", name |-> "Purifier"]
DiscoveryInfos == {"None", "discovered"}

\* ------------------------------------------------------------------ setup
\* The (class, kind) pairs async_setup_platform constructs, in its order.
Candidates(snapshot) ==
    LET IsSensor(kind) == SensorWanted(snapshot, kind)
        IsFilter(kind) == is_supported(snapshot, kind)
        sensorKinds == SelectSeq(SensorOrder, IsSensor)
        filterKinds == SelectSeq(FilterOrder, IsFilter)
    IN [i \in 1..Len(sensorKinds) |-> [cls |-> "PhilipsSensor", kind |-> sensorKinds[i]]]
       \o [i \in 1..Len(filterKinds) |-> [cls |-> "PhilipsFilterSensor", kind |-> filterKinds[i]]]

\* One constructor call.
Construct(c, snapshot, name, model) ==
    IF c.cls = "PhilipsSensor"
    THEN PhilipsSensor_init(snapshot, name, model, c.kind)
    ELSE PhilipsFilterSensor_init(snapshot, name, model, c.kind)

\* The two loops: the list built so far and the exception that ended them.
RECURSIVE BuildSensors(_, _, _, _, _)
BuildSensors(cands, sensors, snapshot, name, model) ==
    IF cands = <<>> THEN [exc |-> "none", sensors |-> sensors]
    ELSE LET made == Construct(Head(cands), snapshot, name, model)
         IN IF made.exc # "none"
            THEN [exc |-> made.exc, sensors |-> sensors]
            ELSE BuildSensors(Tail(cands), Append(sensors, made.entity),
                              snapshot, name, model)

\* Mutant of AddEntitiesCalls: the list built so far is registered even when
\* a constructor raised.
AddEntitiesCallsAlways(built) ==
    <<[entities |-> built.sensors, update_before_add |-> FALSE]>>

\* The calls to async_add_entities one run of async_setup_platform makes.
AddEntitiesCalls(built) ==
    IF built.exc = "none"
    THEN <<[entities |-> built.sensors, update_before_add |-> FALSE]>>
    ELSE <<>>

\* async_setup_platform.  The host calls it once, and again after a
\* PlatformNotReady.
Setup(info) ==
    /\ setup \in {"not_called", "PlatformNotReady"}
    /\ IF info = "None"
       THEN /\ setup' = "no_discovery"
            /\ entities' = <<>>
            /\ registered' = registered
            /\ lastCall' = [NoCall EXCEPT !.op = "setup"]
       ELSE LET built == BuildSensors(Candidates(status), <<>>, status,
                                      Discovery.name, Discovery.model)
            IN /\ setup' = IF built.exc = "none" THEN "done" ELSE built.exc
               /\ entities' = IF built.exc = "none" THEN built.sensors ELSE <<>>
               /\ registered' = registered \o AddEntitiesCalls(built)
               /\ lastCall' = [NoCall EXCEPT !.op = "setup", !.exc = built.exc]
    /\ UNCHANGED status

\* ------------------------------------------------------------------ refresh
\* The coordinator stores a new value under a key of the status.
RefreshSet(k, v) ==
    /\ Get(status, k) # v \/ ~Has(status, k)
    /\ status' = Put(status, k, v)
    /\ lastCall' = NoCall
    /\ UNCHANGED <<setup, entities, registered>>

\* The coordinator's new status no longer holds a key.
RefreshDrop(k) ==
    /\ Has(status, k)
    /\ status' = Del(status, k)
    /\ lastCall' = NoCall
    /\ UNCHANGED <<setup, entities, registered>>

\* ------------------------------------------------------------------ host reads
\* The entities the host reads are the registered ones.
Readable(i, cls) ==
    /\ setup = "done"
    /\ i \in 1..Len(entities)
    /\ entities[i].cls = cls

ReadSensorState(i) ==
    /\ Readable(i, "PhilipsSensor")
    /\ LET r == PhilipsSensor_state(entities[i], status)
       IN lastCall' = [NoCall EXCEPT !.op = "sensor_state", !.idx = i,
                                     !.exc = r.exc, !.val = r.val]
    /\ UNCHANGED <<status, setup, entities, registered>>

ReadFilterState(i) ==
    /\ Readable(i, "PhilipsFilterSensor")
    /\ LET r == PhilipsFilterSensor_state(entities[i], status)
       IN lastCall' = [NoCall EXCEPT !.op = "filter_state", !.idx = i,
                                     !.exc = r.exc, !.val = r.val]
    /\ UNCHANGED <<status, setup, entities, registered>>

\* The list handed to async_add_entities holds these same objects.
ReadFilterAttributes(i) ==
    /\ Readable(i, "PhilipsFilterSensor")
    /\ LET r == PhilipsFilterSensor_extra_state_attributes(entities[i], status)
       IN /\ lastCall' = [NoCall EXCEPT !.op = "filter_attributes", !.idx = i,
                                        !.exc = r.exc, !.attrs = r.ret]
          /\ entities' = [entities EXCEPT ![i].attrs = r.attrs]
          /\ registered' = [c \in 1..Len(registered) |->
                                [registered[c] EXCEPT !.entities = entities']]
    /\ UNCHANGED <<status, setup>>

\* ------------------------------------------------------------------ spec
\* The platform on a device that reports every key; the host reads states.
Init ==
    /\ status \in Snapshots(StatusKeys)
    /\ setup = "not_called"
    /\ entities = <<>>
    /\ registered = <<>>
    /\ lastCall = NoCall

Next ==
    \/ \E info \in DiscoveryInfos : Setup(info)
    \/ \E k \in StatusKeys : \E v \in KeyValues(k) : RefreshSet(k, v)
    \/ \E k \in StatusKeys : RefreshDrop(k)
    \/ \E i \in 1..Len(entities) : ReadSensorState(i)
    \/ \E i \in 1..Len(entities) : ReadFilterState(i)

Spec == Init /\ [][Next]_vars

\* The platform on a device that reports its id and its filter, and none of
\* the declared sensors; the host reads states and attributes.
FilterKeys ==
    {PHILIPS_DEVICE_ID,
     value_key("pre_filter"), total_key("pre_filter"), type_key("pre_filter")}

FilterInit ==
    /\ status \in Snapshots(FilterKeys)
    /\ setup = "not_called"
    /\ entities = <<>>
    /\ registered = <<>>
    /\ lastCall = NoCall

FilterNext ==
    \/ \E info \in DiscoveryInfos : Setup(info)
    \/ \E k \in FilterKeys : \E v \in KeyValues(k) : RefreshSet(k, v)
    \/ \E k \in FilterKeys : RefreshDrop(k)
    \/ \E i \in 1..Len(entities) : ReadFilterState(i)
    \/ \E i \in 1..Len(entities) : ReadFilterAttributes(i)

FilterSpec == FilterInit /\ [][FilterNext]_vars

\* ------------------------------------------------------------------ claims
\* A setup call with a discovery context has just returned normally.
SetupCompleted == lastCall.op = "setup" /\ setup = "done"

\* The constructed entities hold one of class cls for kind.
EntityFor(cls, kind) ==
    \E i \in 1..Len(entities) : entities[i].cls = cls /\ entities[i].kind = kind

\* The entity the call that has just returned was made on.
Target == entities[lastCall.idx]

\* prefix + "FilterStatus" + postfix of a declared filter type.
DerivedValueKey(kind) ==
    FILTER_TYPES[kind].prefix \o "FilterStatus" \o FILTER_TYPES[kind].postfix
DerivedTotalKey(kind) ==
    FILTER_TYPES[kind].prefix \o "FilterTotal" \o FILTER_TYPES[kind].postfix
DerivedTypeKey(kind) ==
    FILTER_TYPES[kind].prefix \o "FilterType" \o FILTER_TYPES[kind].postfix

\* C1: after a setup that completes, a Simple Sensor exists for a declared
\* sensor identifier if and only if the identifier is a key of the snapshot,
\* whatever value is stored under it.
C1_SensorForEveryPresentKey ==
    SetupCompleted =>
        \A kind \in DOMAIN SENSOR_TYPES :
            Has(status, kind) <=> EntityFor("PhilipsSensor", kind)

\* C2: after a setup that completes, a Filter Sensor exists for a declared
\* filter type if and only if its derived value key is a key of the snapshot;
\* the total key and the type key play no part.
C2_FilterIffValueKey ==
    SetupCompleted =>
        \A kind \in DOMAIN FILTER_TYPES :
            EntityFor("PhilipsFilterSensor", kind) <=> Has(status, DerivedValueKey(kind))

\* C2 witness: a filter sensor was created from the value key alone.
C2_Witness ==
    /\ SetupCompleted
    /\ EntityFor("PhilipsFilterSensor", "pre_filter")
    /\ ~Has(status, DerivedTotalKey("pre_filter"))
    /\ ~Has(status, DerivedTypeKey("pre_filter"))

\* C3: a state read of a Filter Sensor, made while the snapshot holds the
\* value and a non-zero total, returns the float nearest to 100 * value /
\* total with two decimals, of the value and total the snapshot holds now.
C3_PercentageOfCurrentSnapshot ==
    (/\ lastCall.op = "filter_state"
     /\ Has(status, DerivedTotalKey(Target.kind))
     /\ Has(status, DerivedValueKey(Target.kind))
     /\ status[DerivedTotalKey(Target.kind)].n # 0)
    => LET value == status[DerivedValueKey(Target.kind)].n
           total == status[DerivedTotalKey(Target.kind)].n
           off == lastCall.val.n * total - 10000 * value
       IN /\ lastCall.exc = "none"
          /\ lastCall.val.t = "float"
          /\ 2 * off <= total
          /\ 2 * off >= -total

\* C3 witness: the attributes were read when the value was 1, the snapshot
\* now holds 2 of 3, and the state read returns 66.67.
C3_Witness ==
    /\ lastCall.op = "filter_state"
    /\ lastCall.val = FloatV(6667)
    /\ Has(Target.attrs, "raw")
    /\ Target.attrs["raw"] = IntV(1)

\* C4: a state read of a Filter Sensor returns a percentage if and only if
\* the unit of measurement fixed at construction is the percent unit.
C4_BranchAgreesWithUnit ==
    (lastCall.op = "filter_state" /\ lastCall.exc = "none")
    => (lastCall.val.t = "float" <=> Target.unit = "%")

\* Some constructor runs in a setup call made on this snapshot.
SomeConstruction ==
    \/ \E kind \in DOMAIN SENSOR_TYPES : Truthy(Get(status, kind))
    \/ \E kind \in DOMAIN FILTER_TYPES : Has(status, DerivedValueKey(kind))

\* C5: a setup call whose constructors run without the device-id key raises
\* PlatformNotReady and nothing else; with the key every constructor succeeds
\* and the unique id is model-device_id-identifier.
C5_NotReadyWithoutDeviceId ==
    (lastCall.op = "setup" /\ setup # "no_discovery")
    => IF Has(status, "DeviceId")
       THEN /\ lastCall.exc = "none"
            /\ \A i \in 1..Len(entities) :
                  entities[i].unique_id =
                      "AC1234-" \o status["DeviceId"].s \o "-" \o entities[i].kind
       ELSE /\ lastCall.exc \in {"none", "PlatformNotReady"}
            /\ SomeConstruction => lastCall.exc = "PlatformNotReady"

\* C5 witness: the filter sensor's constructor raised PlatformNotReady.
C5_Witness ==
    /\ lastCall.op = "setup"
    /\ lastCall.exc = "PlatformNotReady"
    /\ ~Has(status, "DeviceId")
    /\ \A kind \in DOMAIN SENSOR_TYPES : ~Has(status, kind)

\* C6: a state read in the percentage branch with a total of 0 raises an
\* explicit invalid-denominator error, not the division's own fault.
C6_ZeroTotalGuarded ==
    (/\ lastCall.op = "filter_state"
     /\ Has(status, DerivedTotalKey(Target.kind))
     /\ Has(status, DerivedValueKey(Target.kind))
     /\ status[DerivedTotalKey(Target.kind)].n = 0)
    => lastCall.exc \notin {"none", "ZeroDivisionError"}

\* C7: the attributes a read returns hold "type" exactly when the type key is
\* in the snapshot now, and the total and time remaining exactly when the
\* total key is in the snapshot now.
C7_AttributesOfCurrentSnapshot ==
    (lastCall.op = "filter_attributes" /\ lastCall.exc = "none")
    => /\ Has(lastCall.attrs, "type") <=> Has(status, DerivedTypeKey(Target.kind))
       /\ Has(lastCall.attrs, "total") <=> Has(status, DerivedTotalKey(Target.kind))
       /\ Has(lastCall.attrs, "time_remaining")
             <=> Has(status, DerivedTotalKey(Target.kind))

\* C8: a state read made when the sensor's key, or the filter's value key, is
\* no longer in the snapshot raises KeyError.
C8_MissingKeyRaises ==
    /\ (lastCall.op = "sensor_state" /\ ~Has(status, Target.kind))
          => lastCall.exc = "KeyError"
    /\ (lastCall.op = "filter_state" /\ ~Has(status, DerivedValueKey(Target.kind)))
          => lastCall.exc = "KeyError"

\* C8 witness: the filter was constructed, a refresh dropped its value key
\* and kept its total key, and the state read raised KeyError.
C8_Witness ==
    /\ lastCall.op = "filter_state"
    /\ lastCall.exc = "KeyError"
    /\ Has(status, DerivedTotalKey(Target.kind))

\* The value a state read of a Simple Sensor owes on the current snapshot.
ExpectedSensorState(kind) ==
    IF SENSOR_TYPES[kind].value = "none"
    THEN status[kind]
    ELSE Convert(SENSOR_TYPES[kind].value, status[kind], status)

\* A state read of a Simple Sensor has just returned on a present key.
SensorStateReturned ==
    (lastCall.op = "sensor_state" /\ Has(status, Target.kind))
    => lastCall.exc = "none" /\ lastCall.val = ExpectedSensorState(Target.kind)

\* A state read of a Simple Sensor changes neither snapshot nor entity.
SensorReadChangesNothing ==
    lastCall'.op = "sensor_state" => status' = status /\ entities' = entities

\* C9: a state read of a Simple Sensor returns the conversion of the current
\* snapshot's value when the definition has one, the value itself otherwise,
\* and leaves the snapshot and the entity as they were.
C9_SensorStateReadThrough ==
    []SensorStateReturned /\ [][SensorReadChangesNothing]_vars

\* C9 witness: the water level reads 0 under a water error though the
\* snapshot holds 1.
C9_Witness ==
    /\ lastCall.op = "sensor_state"
    /\ Target.kind = "wl"
    /\ status["wl"] = IntV(1)
    /\ lastCall.val = IntV(0)

\* C10: async_add_entities is called once, with every constructed entity and
\* update_before_add False, by the setup call that completes, and not at all
\* by a call without discovery context or one whose constructor raises.
C10_RegistrationAllOrNothing ==
    /\ setup = "done" <=> Len(registered) = 1
    /\ Len(registered) <= 1
    /\ setup = "done" =>
          registered = <<[entities |-> entities, update_before_add |-> FALSE]>>
    /\ (lastCall.op = "setup" /\ lastCall.exc # "none") => setup # "done"

\* C10 witness: setup completed and registered all three entities at once.
C10_Witness ==
    /\ SetupCompleted
    /\ Len(registered) = 1
    /\ Len(registered[1].entities) = 3

====
